---------------------------- MODULE Spec2Model ----------------------------
(***************************************************************************)
(* A model of les-campai-connector's `sync` command                        *)
(* (src/les_campai_connector/cli.py): the normalizer that deduplicates the *)
(* contacts fetched from the source registry, the resolver and the diff    *)
(* that compute the sync queue, the executor that applies the queue to the *)
(* identity store, and the heartbeat sent by the command.                  *)
(*                                                                         *)
(* Text is modelled as sequences of one-character strings, so that         *)
(* str.lower, str.split, str.rstrip and sanitize_username are computed the *)
(* way Python computes them.  An optional value is a sequence of at most   *)
(* one element: None is the empty one, Some(x) holds x.                    *)
(*                                                                         *)
(* cli.py reads three names whose declarations are not in the source tree: *)
(* contact.membership.number_sort (campai/model.py declares no such        *)
(* field), settings.sync.uptime_endpoint (config.py declares no such       *)
(* field) and kc.find_user_by_username (kc.py defines no such function).   *)
(* They are modelled from the specification and from their use in cli.py:  *)
(* an optional integer, a configured endpoint, and an exact-match query.   *)
(*                                                                         *)
(* The identity store (Keycloak) and the source registry (Campai) are      *)
(* external services.  The store is modelled as a finite map of accounts   *)
(* that keeps usernames unique (a write that would duplicate or blank a    *)
(* username is refused with an error), holds emails in lower case before   *)
(* the first invocation (the comments at cli.py:83 and cli.py:261 say the  *)
(* store lowercases them) and answers kc_admin.get_users the way Keycloak  *)
(* documents GET /users: `q` matches an attribute value exactly, while     *)
(* `email`, sent without `exact`, matches every account whose email        *)
(* contains the text, regardless of case.                                  *)
(* Any call to either service may also fail.                               *)
(*                                                                         *)
(* The --cache-to and --cache-from options (cli.py:145-147, 194-196) are   *)
(* not part of the pipeline specification; the specifications of the       *)
(* resolver and of the diff start where --cache-from leaves the run, with  *)
(* the contact list given.                                                 *)
(***************************************************************************)
EXTENDS Integers, Sequences, FiniteSets, TLC

VARIABLES
    source,            \* the source registry's contact list (raw records)
    users,             \* the identity store: account id -> account
    auto_apply,        \* settings.sync.auto_apply as cli.py:327 reads it (FALSE before)
    pc,                \* position of the current invocation of `sync`
    outcome,           \* how _do_sync ended: "running", "returned", "raised", "exited"
    page_skip,         \* cli.py:152
    email_to_contact,  \* cli.py:149, a dict in insertion order: <<key, contact>> pairs
    contacts,          \* cli.py:192
    contact_idx,       \* position of the loop of cli.py:203 in contacts
    kc_user,           \* cli.py:205-209, the account resolved for the last contact
    member_actions,    \* cli.py:215, the flags computed for the last contact
    queries,           \* the store queries issued while resolving the last contact
    sync_queue,        \* cli.py:201
    op_idx,            \* position of the loop of cli.py:332 in sync_queue
    op_step,           \* position inside the current operation
    user_id,           \* cli.py:419/422, the account id of the current operation
    probes,            \* the usernames probed by the loop of cli.py:355 in this operation
    calls,             \* the mutating store calls issued by this invocation
    previewed,         \* the operations the preview loop of cli.py:284 printed a line for
    confirmation,      \* the answer to click.confirm, cli.py:328 ("none" while not asked)
    lookups,           \* how many organisations, then groups, the lookups of cli.py:113, 135 found
    heartbeats,        \* the heartbeat signals sent by this invocation
    exit_status,       \* the process exit status of this invocation (None while running)
    warnings,          \* the kinds of warning logged by this invocation
    raised_at,         \* index of the operation in which a store call raised (0: none)
    started_ops,       \* indices of the operations whose execution has begun
    prev_clean,        \* the previous invocation returned after executing its whole queue
    runs,              \* invocations begun so far
    first_users,       \* the identity store as it was before the first invocation
    failures           \* service failures injected so far

vars == <<source, users, auto_apply, pc, outcome, page_skip, email_to_contact,
          contacts, contact_idx, kc_user, member_actions, queries, sync_queue,
          op_idx, op_step, user_id, probes, calls, previewed, confirmation,
          lookups, heartbeats, exit_status, warnings, raised_at, started_ops,
          prev_clean, runs, first_users, failures>>

\* Python's None, and a value that is present
None == <<>>
Some(x) == <<x>>
Val(o) == o[1]

-----------------------------------------------------------------------------
(* Bounds of the model.                                                    *)

\* contacts in the source registry, pipeline specification
MaxContacts == 2
\* contacts in the source registry, normalizer specification
MaxRaw == 3
\* accounts in the identity store before the first invocation
MaxAccounts == 1
\* accounts in the identity store, resolver specification
MaxResolveAccounts == 3
\* page_limit of cli.py:151 is 50; scaled down so that page boundaries fall
\* inside the bounded contact lists
PageLimit == 2
\* invocations of the sync command in one behaviour
MaxRuns == 2
\* injected failures of a service call in one behaviour
MaxFailures == 1
\* how many organisations or groups a lookup may return
MaxMatches == 2

-----------------------------------------------------------------------------
(* Text.                                                                   *)

UpperCase == <<"A","B","C","D","E","F","G","H","I","J","K","L","M",
               "N","O","P","Q","R","S","T","U","V","W","X","Y","Z">>
LowerCase == <<"a","b","c","d","e","f","g","h","i","j","k","l","m",
               "n","o","p","q","r","s","t","u","v","w","x","y","z">>
Digits == <<"0","1","2","3","4","5","6","7","8","9">>

Range(s) == {s[i] : i \in DOMAIN s}

\* str.lower() on one character
LowerChar(c) ==
    IF \E i \in DOMAIN UpperCase : UpperCase[i] = c
    THEN LowerCase[CHOOSE i \in DOMAIN UpperCase : UpperCase[i] = c]
    ELSE c

\* str.lower()
Lower(s) == [i \in DOMAIN s |-> LowerChar(s[i])]

\* str(n) for a natural number n
RECURSIVE StrOfInt(_)
StrOfInt(n) ==
    IF n < 10 THEN <<Digits[n + 1]>>
    ELSE StrOfInt(n \div 10) \o <<Digits[(n % 10) + 1]>>

\* s.split(sep)[0]: the text before the first occurrence of sep
SplitFirst(s, sep) ==
    IF \E i \in DOMAIN s : s[i] = sep
    THEN SubSeq(s, 1, (CHOOSE i \in DOMAIN s :
                          s[i] = sep /\ \A j \in 1..(i - 1) : s[j] # sep) - 1)
    ELSE s

\* whether sub occurs in s
Contains(s, sub) ==
    \E i \in 0..(Len(s) - Len(sub)) : SubSeq(s, i + 1, i + Len(sub)) = sub

\* s.endswith(suffix)
EndsWith(s, suffix) ==
    /\ Len(s) >= Len(suffix)
    /\ SubSeq(s, Len(s) - Len(suffix) + 1, Len(s)) = suffix

\* s.rstrip(chars): drops every trailing character that occurs in chars
RECURSIVE RStrip(_, _)
RStrip(s, chars) ==
    IF s # <<>> /\ s[Len(s)] \in Range(chars)
    THEN RStrip(SubSeq(s, 1, Len(s) - 1), chars)
    ELSE s

\* str(x) where x is an optional text
Str(x) == IF x = None THEN <<"N","o","n","e">> ELSE Val(x)

ATTRIBUTE_CAMPAI_ID == "campai-id"
NO_MEMBER_SUFFIX == <<"_","n","o","m","e","m","b","e","r">>

ALLOWED_USERNAME_LETTERS ==
    Range(LowerCase) \cup Range(UpperCase) \cup Range(Digits) \cup {".", "-", "_"}

RECURSIVE sanitize_username(_)
sanitize_username(username) ==
    IF username = <<>> THEN <<>>
    ELSE LET c == Head(username)
             rest == sanitize_username(Tail(username))
         IN  IF c \in ALLOWED_USERNAME_LETTERS THEN <<c>> \o rest
             ELSE IF c = " " THEN <<"_">> \o rest
             ELSE rest

-----------------------------------------------------------------------------
(* The source registry's records and their parsed form.                    *)

convert_empty_str_to_none(v) == IF v = Some(<<>>) THEN None ELSE v

\* contact.membership.number_sort, read by cli.py:172 and declared nowhere
\* under src/: the record's membership number, which may be absent
NumberSort(raw) == raw.numberSort

\* Contact, as pydantic builds it from one record of the registry's JSON
ParseContact(raw) ==
    [id |-> raw.id,
     personal |-> [is_person |-> raw.isPerson,
                   is_organisation |-> raw.isOrganisation,
                   person_first_name |-> raw.personFirstName,
                   person_last_name |-> raw.personLastName],
     communication |-> [email |-> convert_empty_str_to_none(raw.email)],
     membership |-> [status |-> raw.status, number_sort |-> NumberSort(raw)]]

\* a registry that answers an offset past its end with its last page again
GetContactsRepeatingLastPage(registry, limit, skip) ==
    LET from == IF skip >= Len(registry) /\ skip > 0 THEN skip - limit ELSE skip
        last == IF from + limit < Len(registry) THEN from + limit ELSE Len(registry)
    IN  [i \in 1..(last - from) |-> ParseContact(registry[from + i])]

\* campai.get_contacts(organisation, page={"limit": limit, "skip": skip})
GetContacts(registry, limit, skip) ==
    LET last == IF skip + limit < Len(registry) THEN skip + limit ELSE Len(registry)
    IN  [i \in 1..(last - skip) |-> ParseContact(registry[skip + i])]

is_contact_active(contact) ==
    contact.membership.status \in {Some("willLeave"), Some("isActive")}

-----------------------------------------------------------------------------
(* The identity store.                                                     *)

\* the ids of a finite set of account ids, in increasing order
RECURSIVE SortedIds(_)
SortedIds(S) ==
    IF S = {} THEN <<>>
    ELSE LET m == CHOOSE x \in S : \A y \in S : x <= y
         IN  <<m>> \o SortedIds(S \ {m})

ReprFields == {"id", "username", "email", "firstName", "lastName", "enabled",
               "emailVerified", "attributes"}

\* the user representation the store returns for an account
UserRepr(u) == [f \in ReprFields |-> u[f]]

\* dict.get(key) or []
AttrGet(attributes, key) ==
    IF key \in DOMAIN attributes THEN attributes[key] ELSE <<>>

\* whether an account answers a query of kc_admin.get_users
Matches(u, query) ==
    IF query.kind = "q"
    THEN query.value \in Range(AttrGet(u.attributes, ATTRIBUTE_CAMPAI_ID))
    ELSE IF query.kind = "email"
    THEN u.email # None /\ Contains(Lower(Val(u.email)), Lower(query.value))
    ELSE u.username = query.value

\* kc_admin.get_users(query)
GetUsers(store, query) ==
    LET ids == SortedIds({i \in DOMAIN store : Matches(store[i], query)})
    IN  [k \in DOMAIN ids |-> UserRepr(store[ids[k]])]

\* kc._find_user_by_query
find_user_by_query(store, query) ==
    LET found == GetUsers(store, query)
    IN  IF Len(found) # 1 THEN None ELSE Some(found[Len(found)])

\* the warning of kc.py:48-49
QueryWarns(store, query) == Len(GetUsers(store, query)) > 1

CampaiIdQuery(campai_id) == [kind |-> "q", value |-> campai_id]
EmailQuery(email) == [kind |-> "email", value |-> email]
UsernameQuery(username) == [kind |-> "username", value |-> username]

\* kc.py:56-57 with a query for an id that no account carries
find_user_by_absent_attribute(store, campai_id) ==
    find_user_by_query(store, CampaiIdQuery("absent"))

find_user_by_campai_id(store, campai_id) ==
    find_user_by_query(store, CampaiIdQuery(campai_id))

find_user_by_email(store, email) ==
    find_user_by_query(store, EmailQuery(email))

\* called at cli.py:364, defined nowhere under src/
find_user_by_username(store, username) ==
    find_user_by_query(store, UsernameQuery(username))

\* kc_admin.get_user_groups(user_id)
GetUserGroups(store, id) == store[id].groups

\* kc_admin.create_user and kc_admin.update_user refuse a username that is
\* blank or held by another account
UsernameRefused(store, id, username) ==
    \/ username = <<>>
    \/ \E i \in DOMAIN store : i # id /\ store[i].username = username

\* the id the store gives the next created account
NewUserId(store) == Cardinality(DOMAIN store) + 1

-----------------------------------------------------------------------------
(* Record Normalizer: cli.py:149-192.                                      *)

DictHas(d, key) == \E i \in DOMAIN d : d[i].key = key

\* dict.get(key, None)
DictGet(d, key) ==
    IF DictHas(d, key)
    THEN Some(d[CHOOSE i \in DOMAIN d : d[i].key = key].value)
    ELSE None

\* d[key] = value: a new key goes last, a known key keeps its place
DictSet(d, key, value) ==
    IF DictHas(d, key)
    THEN [i \in DOMAIN d |-> IF d[i].key = key
                             THEN [key |-> key, value |-> value] ELSE d[i]]
    ELSE Append(d, [key |-> key, value |-> value])

\* list(d.values())
DictValues(d) == [i \in DOMAIN d |-> d[i].value]

\* cli.py:162 without its second test
IsSkippedContactPersonOnly(contact) ==
    ~contact.personal.is_person

\* cli.py:162
IsSkippedContact(contact) ==
    ~contact.personal.is_person \/ contact.personal.is_organisation

\* cli.py:176
CannotCompare(current_num, existing_num) ==
    current_num = None \/ existing_num = None

\* cli.py:184 with the comparison turned round
JoinedEarlier(current_num, existing_num) ==
    Val(current_num) < Val(existing_num)

\* cli.py:184
JoinedLater(current_num, existing_num) ==
    Val(current_num) > Val(existing_num)

\* cli.py:160-188 without the `continue` of cli.py:182: the incoming contact
\* replaces the one held when their numbers cannot be compared
ProcessContactKeepsLatest(acc, contact) ==
    IF IsSkippedContact(contact) THEN acc
    ELSE
      LET key == Str(contact.communication.email)
          existing_contact == DictGet(acc.dict, key)
          stored == [acc EXCEPT !.dict = DictSet(acc.dict, key, contact)]
      IN  IF existing_contact # None
          THEN LET current_num == contact.membership.number_sort
                   existing_num == Val(existing_contact).membership.number_sort
               IN  IF CannotCompare(current_num, existing_num)
                   THEN [stored EXCEPT !.warned = TRUE]
                   ELSE IF JoinedLater(current_num, existing_num)
                   THEN acc
                   ELSE stored
          ELSE stored

\* cli.py:160-188 without the warning of cli.py:177-181
ProcessContactSilent(acc, contact) ==
    IF IsSkippedContact(contact) THEN acc
    ELSE
      LET key == Str(contact.communication.email)
          existing_contact == DictGet(acc.dict, key)
          stored == [acc EXCEPT !.dict = DictSet(acc.dict, key, contact)]
      IN  IF existing_contact # None
          THEN LET current_num == contact.membership.number_sort
                   existing_num == Val(existing_contact).membership.number_sort
               IN  IF CannotCompare(current_num, existing_num)
                   THEN acc
                   ELSE IF JoinedLater(current_num, existing_num)
                   THEN acc
                   ELSE stored
          ELSE stored

\* the body of the loop of cli.py:160-188 for one contact;
\* acc holds email_to_contact and whether the warning of cli.py:177 was logged
ProcessContact(acc, contact) ==
    IF IsSkippedContact(contact) THEN acc
    ELSE
      LET key == Str(contact.communication.email)
          existing_contact == DictGet(acc.dict, key)
          stored == [acc EXCEPT !.dict = DictSet(acc.dict, key, contact)]
      IN  IF existing_contact # None
          THEN LET current_num == contact.membership.number_sort
                   existing_num == Val(existing_contact).membership.number_sort
               IN  IF CannotCompare(current_num, existing_num)
                   THEN [acc EXCEPT !.warned = TRUE]
                   ELSE IF JoinedLater(current_num, existing_num)
                   THEN acc
                   ELSE stored
          ELSE stored

\* the loop of cli.py:160-188 over one page
RECURSIVE ProcessPage(_, _)
ProcessPage(acc, next_contacts) ==
    IF next_contacts = <<>> THEN acc
    ELSE ProcessPage(ProcessContact(acc, Head(next_contacts)), Tail(next_contacts))

-----------------------------------------------------------------------------
(* Identity Resolver and Diff Engine: cli.py:203-282.                      *)

DefaultGroup == "g-default"
OtherGroup == "g-other"

\* cli.py:204-209 with the lookup by email ahead of the lookup by id
ResolveEmailFirst(store, contact) ==
    LET id_query == CampaiIdQuery(contact.id)
        email == contact.communication.email
        by_email == IF email = None THEN None
                    ELSE find_user_by_email(store, Str(email))
    IN  IF by_email = None
        THEN [user |-> find_user_by_campai_id(store, contact.id),
              queries |-> <<id_query>>,
              warned |-> QueryWarns(store, id_query)]
        ELSE [user |-> by_email,
              queries |-> <<EmailQuery(Str(email))>>,
              warned |-> FALSE]

\* cli.py:204-209: the account found, the queries issued, whether kc.py:49 warned
Resolve(store, contact) ==
    LET by_id == find_user_by_campai_id(store, contact.id)
        id_query == CampaiIdQuery(contact.id)
        email == contact.communication.email
    IN  IF by_id = None /\ email # None
        THEN [user |-> find_user_by_email(store, Str(email)),
              queries |-> <<id_query, EmailQuery(Str(email))>>,
              warned |-> \/ QueryWarns(store, id_query)
                         \/ QueryWarns(store, EmailQuery(Str(email)))]
        ELSE [user |-> by_id,
              queries |-> <<id_query>>,
              warned |-> QueryWarns(store, id_query)]

CreateActions ==
    {"CREATE", "ACTIVATE", "UPDATE_FIRST_NAME", "UPDATE_LAST_NAME", "UPDATE_EMAIL",
     "ADD_DEFAULT_GROUP", "ADD_CAMPAI_ID", "SET_EMAIL_VALIDATED"}

\* cli.py:235-258
ActivationActions(is_active, user, user_groups) ==
    IF is_active
    THEN (IF ~user.enabled THEN {"ACTIVATE"} ELSE {})
         \cup (IF DefaultGroup \notin user_groups THEN {"ADD_DEFAULT_GROUP"} ELSE {})
         \cup (IF EndsWith(user.username, NO_MEMBER_SUFFIX)
               THEN {"REMOVE_NO_MEMBER_SUFFIX"} ELSE {})
    ELSE (IF user.enabled THEN {"DEACTIVATE"} ELSE {})
         \cup (IF Cardinality(user_groups) > 0 THEN {"REMOVE_ALL_GROUPS"} ELSE {})
         \cup (IF ~EndsWith(user.username, NO_MEMBER_SUFFIX)
               THEN {"ADD_NO_MEMBER_SUFFIX"} ELSE {})

\* cli.py:260-278 with the contact's email compared as it is written
ProfileActionsCaseSensitive(contact, user) ==
    (IF user.email # contact.communication.email THEN {"UPDATE_EMAIL"} ELSE {})
    \cup (IF user.firstName # Some(contact.personal.person_first_name)
          THEN {"UPDATE_FIRST_NAME"} ELSE {})
    \cup (IF user.lastName # Some(contact.personal.person_last_name)
          THEN {"UPDATE_LAST_NAME"} ELSE {})
    \cup (IF contact.id \notin Range(AttrGet(user.attributes, ATTRIBUTE_CAMPAI_ID))
          THEN {"ADD_CAMPAI_ID"} ELSE {})
    \cup (IF ~user.emailVerified THEN {"SET_EMAIL_VALIDATED"} ELSE {})

\* cli.py:260-278
ProfileActions(contact, user) ==
    LET campai_email == IF contact.communication.email = None THEN None
                        ELSE Some(Lower(Str(contact.communication.email)))
    IN  (IF user.email # campai_email THEN {"UPDATE_EMAIL"} ELSE {})
        \cup (IF user.firstName # Some(contact.personal.person_first_name)
              THEN {"UPDATE_FIRST_NAME"} ELSE {})
        \cup (IF user.lastName # Some(contact.personal.person_last_name)
              THEN {"UPDATE_LAST_NAME"} ELSE {})
        \cup (IF contact.id \notin Range(AttrGet(user.attributes, ATTRIBUTE_CAMPAI_ID))
              THEN {"ADD_CAMPAI_ID"} ELSE {})
        \cup (IF ~user.emailVerified THEN {"SET_EMAIL_VALIDATED"} ELSE {})

\* cli.py:211-278 with the tests of the desired state outside the presence test
ComputeActionsUnbranched(contact, found, store) ==
    LET is_active == is_contact_active(contact)
        is_keycloak_user_created == found # None
    IN  (IF ~is_keycloak_user_created THEN CreateActions ELSE {})
        \cup (IF ~is_active THEN {"DEACTIVATE"} ELSE {})
        \cup (IF is_keycloak_user_created
              THEN ActivationActions(is_active, Val(found),
                                     GetUserGroups(store, Val(found).id))
                   \cup ProfileActions(contact, Val(found))
              ELSE {})

\* cli.py:211-278: member_actions for one contact and the account resolved for it
ComputeActions(contact, found, store) ==
    LET is_active == is_contact_active(contact)
        is_keycloak_user_created == found # None
    IN  (IF is_active /\ ~is_keycloak_user_created THEN CreateActions ELSE {})
        \cup (IF is_keycloak_user_created
              THEN ActivationActions(is_active, Val(found),
                                     GetUserGroups(store, Val(found).id))
                   \cup ProfileActions(contact, Val(found))
              ELSE {})

-----------------------------------------------------------------------------
(* Operation Planner and Plan Executor: cli.py:332-443.                    *)

\* the loop of cli.py:355-368 with `username_idx += 2`
RECURSIVE ProbeUsernamesSkipping(_, _, _)
ProbeUsernamesSkipping(store, base_username, username_idx) ==
    LET username == IF username_idx > 0
                    THEN base_username \o StrOfInt(username_idx)
                    ELSE base_username
    IN  IF find_user_by_username(store, username) = None
        THEN <<username>>
        ELSE <<username>>
             \o ProbeUsernamesSkipping(store, base_username, username_idx + 2)

\* the loop of cli.py:355-368: the candidates probed, the last one being free
RECURSIVE ProbeUsernames(_, _, _)
ProbeUsernames(store, base_username, username_idx) ==
    LET username == IF username_idx > 0
                    THEN base_username \o StrOfInt(username_idx)
                    ELSE base_username
    IN  IF find_user_by_username(store, username) = None
        THEN <<username>>
        ELSE <<username>> \o ProbeUsernames(store, base_username, username_idx + 1)

\* cli.py:349-353
ProbesFor(store, contact) ==
    ProbeUsernames(store,
                   sanitize_username(SplitFirst(Str(contact.communication.email), "@")),
                   0)

\* cli.py:340-373: update_user.username before the suffix steps
SeedUsername(store, op) ==
    LET created == IF "CREATE" \in op.actions
                   THEN LET p == ProbesFor(store, op.contact) IN Some(p[Len(p)])
                   ELSE None
    IN  IF op.kc_user # None
        THEN Some(sanitize_username(Val(op.kc_user).username))
        ELSE created

\* cli.py:406-408 alone
SuffixedUsernameNeverAdded(username, actions) ==
    IF "REMOVE_NO_MEMBER_SUFFIX" \in actions
    THEN RStrip(username, NO_MEMBER_SUFFIX) ELSE username

\* cli.py:402-408
SuffixedUsername(username, actions) ==
    LET added == IF "ADD_NO_MEMBER_SUFFIX" \in actions
                 THEN username \o NO_MEMBER_SUFFIX ELSE username
    IN  IF "REMOVE_NO_MEMBER_SUFFIX" \in actions
        THEN RStrip(added, NO_MEMBER_SUFFIX) ELSE added

\* the fields of MinimalUpdateUserRepresentation that cli.py:365-412 assign
SetFields(actions) ==
    {"username"}
    \cup (IF "ACTIVATE" \in actions \/ "DEACTIVATE" \in actions THEN {"enabled"} ELSE {})
    \cup (IF "UPDATE_EMAIL" \in actions THEN {"email"} ELSE {})
    \cup (IF "UPDATE_FIRST_NAME" \in actions THEN {"firstName"} ELSE {})
    \cup (IF "UPDATE_LAST_NAME" \in actions THEN {"lastName"} ELSE {})
    \cup (IF "ADD_CAMPAI_ID" \in actions THEN {"attributes"} ELSE {})
    \cup (IF "SET_EMAIL_VALIDATED" \in actions THEN {"emailVerified"} ELSE {})

\* cli.py:337-412: update_user as it stands at cli.py:414, as the fields that
\* were assigned and their values
BuildUpdate(store, op) ==
    [f \in SetFields(op.actions) |->
        CASE f = "username" ->
               Some(SuffixedUsername(Val(SeedUsername(store, op)), op.actions))
          [] f = "enabled" -> Some("DEACTIVATE" \notin op.actions)
          [] f = "email" ->
               IF op.contact.communication.email # None
               THEN Some(Lower(Str(op.contact.communication.email)))
               ELSE None
          [] f = "firstName" -> Some(op.contact.personal.person_first_name)
          [] f = "lastName" -> Some(op.contact.personal.person_last_name)
          [] f = "attributes" ->
               Some([a \in {ATTRIBUTE_CAMPAI_ID} |-> <<op.contact.id>>])
          [] f = "emailVerified" -> Some(TRUE)]

OptionalFields == {"email", "firstName", "lastName"}

\* the value a field of a JSON payload gives an account field
FieldValue(field, value) == IF field \in OptionalFields THEN value ELSE Val(value)

\* cli.py:418: model_dump(exclude_none=True)
CreatePayload(update_user) ==
    [f \in {g \in DOMAIN update_user : update_user[g] # None} |-> update_user[f]]

\* cli.py:425-432: the whole representation found by the lookup, overwritten by
\* model_dump(exclude_none=False, exclude_unset=True)
UpdatePayload(found, update_user) ==
    [f \in ReprFields |->
        IF f \in DOMAIN update_user THEN FieldValue(f, update_user[f]) ELSE found[f]]

\* the account kc_admin.create_user makes of a payload
CreatedAccount(id, payload) ==
    [id |-> id,
     username |-> Val(payload.username),
     email |-> IF "email" \in DOMAIN payload THEN payload.email ELSE None,
     firstName |-> IF "firstName" \in DOMAIN payload THEN payload.firstName ELSE None,
     lastName |-> IF "lastName" \in DOMAIN payload THEN payload.lastName ELSE None,
     enabled |-> IF "enabled" \in DOMAIN payload THEN Val(payload.enabled) ELSE FALSE,
     emailVerified |-> IF "emailVerified" \in DOMAIN payload
                       THEN Val(payload.emailVerified) ELSE FALSE,
     attributes |-> IF "attributes" \in DOMAIN payload
                    THEN Val(payload.attributes) ELSE [a \in {} |-> <<>>],
     groups |-> {}]

\* kc_admin.create_user(payload, exist_ok=False)
CreateUser(store, payload) ==
    LET id == NewUserId(store)
    IN  [i \in DOMAIN store \cup {id} |->
            IF i = id THEN CreatedAccount(id, payload) ELSE store[i]]

\* kc_admin.update_user(user_id, payload): every field of the representation
\* is replaced, group membership is not part of it
UpdateUser(store, id, payload) ==
    [store EXCEPT ![id] =
        [f \in DOMAIN store[id] |->
            IF f \in ReprFields \ {"id"} THEN payload[f] ELSE store[id][f]]]

\* kc_admin.group_user_add(user_id, group_id)
GroupUserAdd(store, id, group) ==
    [store EXCEPT ![id].groups = @ \cup {group}]

\* kc_admin.group_user_remove(user_id, group_id)
GroupUserRemove(store, id, group) ==
    [store EXCEPT ![id].groups = @ \ {group}]

\* the first group of kc_admin.get_user_groups(user_id) not yet removed
NextGroup(groups) == IF DefaultGroup \in groups THEN DefaultGroup ELSE CHOOSE g \in groups : TRUE

\* cli.py:340-346 without the test of the email
IsSkippedOpNever(op) == FALSE

\* cli.py:340-346: a CREATE without an email is skipped with a warning
IsSkippedOp(op) ==
    "CREATE" \in op.actions /\ op.contact.communication.email = None

\* cli.py:414-443 with the group calls ahead of the create or update
OpStepsGroupsFirst(actions) ==
    (IF "ADD_DEFAULT_GROUP" \in actions THEN <<"add">> ELSE <<>>)
    \o (IF "REMOVE_ALL_GROUPS" \in actions THEN <<"remove">> ELSE <<>>)
    \o <<"write">>

\* cli.py:414-443: the steps of an operation with these actions, in order
OpSteps(actions) ==
    <<"write">>
    \o (IF "ADD_DEFAULT_GROUP" \in actions THEN <<"add">> ELSE <<>>)
    \o (IF "REMOVE_ALL_GROUPS" \in actions THEN <<"remove">> ELSE <<>>)

\* the step an operation begins with
FirstStep(actions) == OpSteps(actions)[1]

\* the step that follows `step` in an operation with these actions
\* ("done": the operation is over)
StepAfter(step, actions) ==
    LET steps == OpSteps(actions)
        k == CHOOSE i \in DOMAIN steps : steps[i] = step
    IN  IF k < Len(steps) THEN steps[k + 1] ELSE "done"

-----------------------------------------------------------------------------
(* The sync command, one action per step: cli.py:104-459.                  *)

runVars == <<page_skip, email_to_contact, contacts, contact_idx, kc_user,
             member_actions, queries, sync_queue, op_idx, op_step, user_id,
             probes, calls, previewed, confirmation, lookups, heartbeats,
             exit_status, warnings, raised_at, started_ops>>
fetchVars == <<page_skip, email_to_contact, contacts>>
diffVars == <<contact_idx, kc_user, member_actions, queries, sync_queue>>
execVars == <<op_idx, op_step, user_id, probes, calls, raised_at, started_ops>>
endVars == <<heartbeats, exit_status>>
envVars == <<source, auto_apply, prev_clean, runs, failures>>

\* cli.py:449-455: `sync` is invoked and calls _do_sync; of the settings it
\* loads, auto_apply is given its value where it is read, in Confirm
Invoke ==
    /\ pc \in {"idle", "terminated"}
    /\ runs < MaxRuns
    /\ runs' = runs + 1
    /\ prev_clean' = (pc = "terminated" /\ outcome = "returned")
    /\ auto_apply' = FALSE
    /\ pc' = "organisation"
    /\ outcome' = "running"
    /\ page_skip' = 0
    /\ email_to_contact' = <<>>
    /\ contacts' = <<>>
    /\ contact_idx' = 1
    /\ kc_user' = None
    /\ member_actions' = {}
    /\ queries' = <<>>
    /\ sync_queue' = <<>>
    /\ op_idx' = 1
    /\ op_step' = "write"
    /\ user_id' = 0
    /\ probes' = <<>>
    /\ calls' = <<>>
    /\ previewed' = {}
    /\ confirmation' = "none"
    /\ lookups' = <<>>
    /\ heartbeats' = <<>>
    /\ exit_status' = None
    /\ warnings' = {}
    /\ raised_at' = 0
    /\ started_ops' = {}
    /\ UNCHANGED <<source, users, first_users, failures>>

\* cli.py:113-122: exit(1) raises SystemExit, which is no Exception: it passes
\* the handler of cli.py:457 and ends the process with status 1
LookupOrganisation ==
    /\ pc = "organisation"
    /\ \E found \in 0..MaxMatches :
          /\ lookups' = Append(lookups, found)
          /\ IF found # 1
             THEN /\ pc' = "terminated"
                  /\ outcome' = "exited"
                  /\ exit_status' = Some(1)
             ELSE /\ pc' = "group"
                  /\ UNCHANGED <<outcome, exit_status>>
    /\ UNCHANGED <<users, fetchVars, diffVars, execVars, previewed, heartbeats,
                   warnings, envVars>>
    /\ UNCHANGED <<confirmation, first_users>>

\* kc.find_group_by_name that takes one of several groups
find_any_group_by_name(groups) == groups >= 1

\* kc.find_group_by_name: whether a group is returned when get_groups finds
\* this many
find_group_by_name(groups) == groups = 1

\* cli.py:135-143
LookupDefaultGroup ==
    /\ pc = "group"
    /\ \E found \in 0..MaxMatches :
          /\ lookups' = Append(lookups, found)
          /\ IF ~find_group_by_name(found)
             THEN /\ pc' = "terminated"
                  /\ outcome' = "exited"
                  /\ exit_status' = Some(1)
             ELSE /\ pc' = "fetch"
                  /\ UNCHANGED <<outcome, exit_status>>
    /\ UNCHANGED <<users, fetchVars, diffVars, execVars, previewed, heartbeats,
                   warnings, envVars>>
    /\ UNCHANGED <<confirmation, first_users>>

\* cli.py:154-192: one turn of the pagination loop
FetchPage ==
    /\ pc = "fetch"
    /\ LET next_contacts == GetContacts(source, PageLimit, page_skip)
           acc == ProcessPage([dict |-> email_to_contact, warned |-> FALSE],
                              next_contacts)
       IN  IF Len(next_contacts) = 0
           THEN /\ contacts' = DictValues(email_to_contact)
                /\ pc' = IF email_to_contact = <<>> THEN "preview" ELSE "diff"
                /\ UNCHANGED <<page_skip, email_to_contact, warnings>>
           ELSE /\ email_to_contact' = acc.dict
                /\ warnings' = IF acc.warned
                               THEN warnings \cup {"same_email"} ELSE warnings
                /\ page_skip' = page_skip + PageLimit
                /\ UNCHANGED <<contacts, pc>>
    /\ UNCHANGED <<users, outcome, diffVars, execVars, previewed, endVars, envVars>>
    /\ UNCHANGED <<lookups, confirmation, first_users>>

\* cli.py:203-282: one turn of the loop over contacts
DiffContact ==
    /\ pc = "diff"
    /\ LET contact == contacts[contact_idx]
           found == Resolve(users, contact)
           actions == ComputeActions(contact, found.user, users)
       IN  /\ kc_user' = found.user
           /\ queries' = found.queries
           /\ warnings' = IF found.warned
                          THEN warnings \cup {"more_than_one_result"} ELSE warnings
           /\ member_actions' = actions
           /\ sync_queue' = IF actions # {}
                            THEN Append(sync_queue, [kc_user |-> found.user,
                                                     contact |-> contact,
                                                     actions |-> actions])
                            ELSE sync_queue
    /\ contact_idx' = contact_idx + 1
    /\ pc' = IF contact_idx = Len(contacts) THEN "preview" ELSE "diff"
    /\ UNCHANGED <<users, outcome, fetchVars, execVars, previewed, endVars, envVars>>
    /\ UNCHANGED <<lookups, confirmation, first_users>>

\* cli.py:39
UPDATE_ACTIONS ==
    {"UPDATE_EMAIL", "UPDATE_FIRST_NAME", "UPDATE_LAST_NAME", "ADD_DEFAULT_GROUP",
     "REMOVE_ALL_GROUPS", "ADD_CAMPAI_ID", "REMOVE_NO_MEMBER_SUFFIX",
     "ADD_NO_MEMBER_SUFFIX", "SET_EMAIL_VALIDATED"}

\* cli.py:287-320: the lines the preview prints for an operation
PreviewLines(actions) ==
    IF actions = {} THEN {}
    ELSE {line \in {"CREATE", "ACTIVATE", "DEACTIVATE"} : line \in actions}
         \cup (IF actions \cap UPDATE_ACTIONS # {} THEN {"UPDATE"} ELSE {})

\* cli.py:284-320: the preview loop
Preview ==
    /\ pc = "preview"
    /\ previewed' = {i \in DOMAIN sync_queue : PreviewLines(sync_queue[i].actions) # {}}
    /\ pc' = "confirm"
    /\ UNCHANGED <<users, outcome, fetchVars, diffVars, execVars, endVars,
                   warnings, envVars>>
    /\ UNCHANGED <<lookups, confirmation, first_users>>

\* cli.py:327-328 with click.confirm(abort=False)
MayProceedUnasked(configured, answer) == TRUE

\* cli.py:327-328: whether the run goes on to the executor
MayProceed(configured, answer) == configured \/ answer

\* cli.py:322-330: click.confirm(abort=True) raises click.Abort, a RuntimeError
Confirm ==
    /\ pc = "confirm"
    /\ IF Len(sync_queue) = 0
       THEN /\ outcome' = "returned"
            /\ pc' = "up"
            /\ UNCHANGED <<auto_apply, confirmation, op_step>>
       ELSE \E configured \in BOOLEAN, answer \in BOOLEAN :
               /\ auto_apply' = configured
               /\ ~configured \/ answer
               /\ confirmation' = IF configured THEN "none"
                                   ELSE IF answer THEN "given" ELSE "declined"
               /\ IF MayProceed(configured, answer)
                  THEN /\ pc' = "exec"
                       /\ op_step' = FirstStep(sync_queue[op_idx].actions)
                       /\ UNCHANGED outcome
                  ELSE /\ outcome' = "raised"
                       /\ pc' = "down"
                       /\ UNCHANGED op_step
    /\ UNCHANGED <<users, fetchVars, diffVars, op_idx, user_id, probes, calls,
                   raised_at, started_ops, previewed, endVars, warnings, source,
                   prev_clean, runs, failures>>
    /\ UNCHANGED <<lookups, first_users>>

\* the loop of cli.py:332 moves on: to `step` of this operation, to the next
\* operation, or out of _do_sync
Advance(step) ==
    IF step # "done"
    THEN /\ op_step' = step
         /\ UNCHANGED <<op_idx, pc, outcome>>
    ELSE IF op_idx < Len(sync_queue)
    THEN /\ op_idx' = op_idx + 1
         /\ op_step' = FirstStep(sync_queue[op_idx + 1].actions)
         /\ UNCHANGED <<pc, outcome>>
    ELSE /\ outcome' = "returned"
         /\ pc' = "up"
         /\ UNCHANGED <<op_idx, op_step>>

\* an exception leaves _do_sync from the executor
RaiseInExecutor ==
    /\ outcome' = "raised"
    /\ pc' = "down"
    /\ raised_at' = op_idx
    /\ UNCHANGED <<op_idx, op_step>>

\* cli.py:333-433: update_user is built and the account is created or updated
ExecWrite ==
    /\ pc = "exec"
    /\ op_step = "write"
    /\ LET op == sync_queue[op_idx]
           is_create == "CREATE" \in op.actions
           update_user == BuildUpdate(users, op)
           id == IF is_create THEN NewUserId(users) ELSE Val(op.kc_user).id
           payload == IF is_create THEN CreatePayload(update_user)
                      ELSE UpdatePayload(Val(op.kc_user), update_user)
           call == [call |-> IF is_create THEN "create_user" ELSE "update_user",
                    user |-> id, op |-> op_idx, payload |-> payload]
       IN  /\ started_ops' = started_ops \cup {op_idx}
           /\ IF IsSkippedOp(op)
              THEN /\ warnings' = warnings \cup {"email_is_missing"}
                   /\ Advance("done")
                   /\ UNCHANGED <<users, user_id, probes, calls, raised_at>>
              ELSE /\ probes' = IF is_create THEN ProbesFor(users, op.contact) ELSE <<>>
                   /\ calls' = Append(calls, call)
                   /\ UNCHANGED warnings
                   /\ IF UsernameRefused(users, id, Val(update_user.username))
                      THEN /\ RaiseInExecutor
                           /\ UNCHANGED <<users, user_id>>
                      ELSE /\ users' = IF is_create
                                       THEN CreateUser(users, payload)
                                       ELSE UpdateUser(users, id, payload)
                           /\ user_id' = id
                           /\ Advance(StepAfter("write", op.actions))
                           /\ UNCHANGED raised_at
    /\ UNCHANGED <<fetchVars, diffVars, previewed, endVars, envVars>>
    /\ UNCHANGED <<lookups, confirmation, first_users>>

\* cli.py:436-437
ExecGroupAdd ==
    /\ pc = "exec"
    /\ op_step = "add"
    /\ users' = GroupUserAdd(users, user_id, DefaultGroup)
    /\ calls' = Append(calls, [call |-> "group_user_add", user |-> user_id,
                                op |-> op_idx, payload |-> DefaultGroup])
    /\ Advance(StepAfter("add", sync_queue[op_idx].actions))
    /\ UNCHANGED <<fetchVars, diffVars, user_id, probes, raised_at, started_ops,
                   previewed, endVars, warnings, envVars>>
    /\ UNCHANGED <<lookups, confirmation, first_users>>

\* cli.py:439-443: one turn of the loop over the account's groups
ExecGroupRemove ==
    /\ pc = "exec"
    /\ op_step = "remove"
    /\ LET user_groups == GetUserGroups(users, user_id)
           after == StepAfter("remove", sync_queue[op_idx].actions)
       IN  IF user_groups = {}
           THEN /\ Advance(after)
                /\ UNCHANGED <<users, calls>>
           ELSE /\ users' = GroupUserRemove(users, user_id, NextGroup(user_groups))
                /\ calls' = Append(calls, [call |-> "group_user_remove",
                                           user |-> user_id, op |-> op_idx,
                                           payload |-> NextGroup(user_groups)])
                /\ Advance(IF Cardinality(user_groups) = 1 THEN after ELSE "remove")
    /\ UNCHANGED <<fetchVars, diffVars, user_id, probes, raised_at, started_ops,
                   previewed, endVars, warnings, envVars>>
    /\ UNCHANGED <<lookups, confirmation, first_users>>

\* a call to the registry or to the store raises instead of answering
\* (client.py:30, or a KeycloakError)
ServiceCallFails ==
    /\ failures < MaxFailures
    /\ \/ pc \in {"organisation", "group", "fetch", "diff"}
       \/ pc = "exec" /\ ~(op_step = "write" /\ IsSkippedOp(sync_queue[op_idx]))
    /\ failures' = failures + 1
    /\ outcome' = "raised"
    /\ pc' = "down"
    /\ raised_at' = IF pc = "exec" THEN op_idx ELSE raised_at
    /\ started_ops' = IF pc = "exec" THEN started_ops \cup {op_idx} ELSE started_ops
    /\ UNCHANGED <<users, fetchVars, diffVars, op_idx, op_step, user_id, probes,
                   calls, previewed, endVars, warnings, source, auto_apply,
                   prev_clean, runs>>
    /\ UNCHANGED <<lookups, confirmation, first_users>>

\* the heartbeat endpoint's answer passes uptime.check_response, or it does
\* not, which counts as a failure of a service
HeartbeatAnswers == IF failures < MaxFailures THEN BOOLEAN ELSE {TRUE}

\* cli.py:456 and uptime.py:39-40: up() raises when the endpoint's answer is
\* not an OK, and the handler of cli.py:457 then calls down()
SendUp ==
    /\ pc = "up"
    /\ heartbeats' = Append(heartbeats, "up")
    /\ \E answer_ok \in HeartbeatAnswers :
          IF answer_ok
          THEN /\ pc' = "terminated"
               /\ exit_status' = Some(0)
               /\ UNCHANGED failures
          ELSE /\ pc' = "down"
               /\ failures' = failures + 1
               /\ UNCHANGED exit_status
    /\ UNCHANGED <<users, outcome, fetchVars, diffVars, execVars, previewed,
                   warnings, source, auto_apply, prev_clean, runs>>
    /\ UNCHANGED <<lookups, confirmation, first_users>>

\* cli.py:457-459 and uptime.py:42-43: an exception of down() leaves `sync`
SendDown ==
    /\ pc = "down"
    /\ heartbeats' = Append(heartbeats, "down")
    /\ pc' = "terminated"
    /\ \E answer_ok \in HeartbeatAnswers :
          /\ exit_status' = Some(IF answer_ok THEN 0 ELSE 1)
          /\ failures' = IF answer_ok THEN failures ELSE failures + 1
    /\ UNCHANGED <<users, outcome, fetchVars, diffVars, execVars, previewed,
                   warnings, source, auto_apply, prev_clean, runs>>
    /\ UNCHANGED <<lookups, confirmation, first_users>>

Next ==
    \/ Invoke
    \/ LookupOrganisation
    \/ LookupDefaultGroup
    \/ FetchPage
    \/ DiffContact
    \/ Preview
    \/ Confirm
    \/ ExecWrite
    \/ ExecGroupAdd
    \/ ExecGroupRemove
    \/ ServiceCallFails
    \/ SendUp
    \/ SendDown

-----------------------------------------------------------------------------
(* Initial states.                                                         *)

EmailA == <<"a", "@", "x">>
EmailUpperA == <<"A", "@", "x">>
EmailBA == <<"b", "a", "@", "x">>
EmailB == <<"b", "@", "x">>
ContactIds == <<"c1", "c2", "c3", "c4", "c5">>
FirstName == "Fn"
LastName == "Ln"

RawContact(is_person, is_organisation, email, status, number_sort) ==
    [id |-> "", isPerson |-> is_person, isOrganisation |-> is_organisation,
     personFirstName |-> FirstName, personLastName |-> LastName,
     email |-> email, status |-> status, numberSort |-> number_sort]

\* the sequences of at most n elements of D
SeqsUpTo(n, D) == UNION {[1..k -> D] : k \in 0..n}

\* the registry gives every record its own id
Registries(n, D) ==
    {[i \in DOMAIN s |-> [s[i] EXCEPT !.id = ContactIds[i]]] : s \in SeqsUpTo(n, D)}

Account(username, email, first, last, enabled, verified, attributes, groups) ==
    [id |-> 0, username |-> username, email |-> email, firstName |-> first,
     lastName |-> last, enabled |-> enabled, emailVerified |-> verified,
     attributes |-> attributes, groups |-> groups]

NoAttributes == [a \in {} |-> <<>>]
Stamp(id) == [a \in {ATTRIBUTE_CAMPAI_ID} |-> <<id>>]
StampAndLocale(id) ==
    [a \in {ATTRIBUTE_CAMPAI_ID, "locale"} |->
        IF a = "locale" THEN <<"de">> ELSE <<id>>]

\* the usernames of the accounts that exist before the first invocation
BaseUsernames == << <<"b">>, <<"a">>, <<"b", "1">>, <<"a", "1">> >>

\* the state at position `start`: "idle" when `sync` has not been invoked yet,
\* "fetch" at cli.py:149 of the first invocation, "diff" at cli.py:198 of an
\* invocation that was given its contact list by --cache-from (cli.py:145-147)
InitAt(start, sources, stores, lists) ==
    /\ source \in sources
    /\ users \in stores
    /\ contacts \in lists
    /\ auto_apply = FALSE
    /\ pc = start
    /\ outcome = "running"
    /\ page_skip = 0
    /\ email_to_contact = <<>>
    /\ contact_idx = 1
    /\ kc_user = None
    /\ member_actions = {}
    /\ queries = <<>>
    /\ sync_queue = <<>>
    /\ op_idx = 1
    /\ op_step = "write"
    /\ user_id = 0
    /\ probes = <<>>
    /\ calls = <<>>
    /\ previewed = {}
    /\ confirmation = "none"
    /\ lookups = IF start = "idle" THEN <<>> ELSE <<1, 1>>
    /\ heartbeats = <<>>
    /\ exit_status = None
    /\ warnings = {}
    /\ raised_at = 0
    /\ started_ops = {}
    /\ prev_clean = FALSE
    /\ runs = IF start = "idle" THEN 0 ELSE 1
    /\ first_users = users
    /\ failures = 0

\* the store gives every account its own id and its own username
Stores(n, D) ==
    {[i \in DOMAIN s |-> [s[i] EXCEPT !.id = i,
                                      !.username = BaseUsernames[i] \o @]] :
        s \in SeqsUpTo(n, D)}

\* pipeline specification: the contacts of the registry
PipelineRaw ==
    {RawContact(TRUE, FALSE, e, s, None) :
        e \in {None, Some(EmailA), Some(EmailUpperA), Some(EmailB)},
        s \in {Some("isActive"), Some("hasLeft")}}
    \cup {RawContact(FALSE, FALSE, Some(EmailA), Some("isActive"), None),
          RawContact(TRUE, TRUE, Some(EmailA), Some("isActive"), None)}

\* how an account looks apart from its email, its stamp and its enabled flag:
\* username suffix, profile in step with the registry or not, groups
AccountShapes ==
    {[suffixed |-> FALSE, tidy |-> TRUE, groups |-> {DefaultGroup}],
     [suffixed |-> TRUE, tidy |-> TRUE, groups |-> {}],
     [suffixed |-> FALSE, tidy |-> FALSE, groups |-> {DefaultGroup, OtherGroup}],
     [suffixed |-> TRUE, tidy |-> FALSE, groups |-> {OtherGroup}]}

ShapedAccount(shape, email, enabled, stamp) ==
    Account(IF shape.suffixed THEN NO_MEMBER_SUFFIX ELSE <<>>,
            email,
            IF shape.tidy THEN Some(FirstName) ELSE Some("Old"),
            IF shape.tidy THEN Some(LastName) ELSE None,
            enabled,
            shape.tidy,
            IF stamp = None
            THEN (IF shape.tidy THEN NoAttributes ELSE [a \in {"locale"} |-> <<"de">>])
            ELSE (IF shape.tidy THEN Stamp(Val(stamp)) ELSE StampAndLocale(Val(stamp))),
            shape.groups)

\* pipeline specification: the accounts of the store
PipelineAccount ==
    {ShapedAccount(shape, e, enabled, stamp) :
        shape \in AccountShapes,
        e \in {None, Some(EmailA), Some(EmailB)},
        enabled \in BOOLEAN,
        stamp \in {None, Some(ContactIds[1]), Some(ContactIds[2])}}

Init ==
    InitAt("idle", Registries(MaxContacts, PipelineRaw),
           Stores(MaxAccounts, PipelineAccount), {<<>>})

Spec == Init /\ [][Next]_vars

-----------------------------------------------------------------------------
(* Specification of the normalizer alone: the pagination loop of           *)
(* cli.py:154-192 over registries whose records vary in kind, email and    *)
(* membership number.                                                      *)

NormRaw ==
    {RawContact(TRUE, FALSE, e, Some("isActive"), n) :
        e \in {None, Some(<<>>), Some(EmailA), Some(EmailB)},
        n \in {None, Some(1), Some(2), Some(3)}}
    \cup {RawContact(FALSE, FALSE, Some(EmailA), Some("isActive"), Some(1)),
          RawContact(TRUE, TRUE, Some(EmailA), Some("isActive"), Some(1))}

InitNorm == InitAt("fetch", Registries(MaxRaw, NormRaw), {<<>>}, {<<>>})

NextNorm == FetchPage

SpecNorm == InitNorm /\ [][NextNorm]_vars

-----------------------------------------------------------------------------
(* Specification of the diff alone: one turn of the loop of cli.py:203-282 *)
(* for one contact and a store of at most one account.                     *)

DiffRaw ==
    {RawContact(TRUE, FALSE, e, s, None) :
        e \in {None, Some(EmailA), Some(EmailUpperA), Some(EmailB)},
        s \in {None, Some("hasLeft"), Some("willLeave"), Some("isActive"),
               Some("willEnter")}}

DiffAccount ==
    {Account(suffix, e, first, last, enabled, verified,
             IF stamp = None THEN NoAttributes ELSE Stamp(Val(stamp)), g) :
        suffix \in {<<>>, NO_MEMBER_SUFFIX},
        e \in {None, Some(EmailA), Some(EmailB)},
        first \in {None, Some(FirstName), Some("Old")},
        last \in {None, Some(LastName)},
        enabled \in BOOLEAN, verified \in BOOLEAN,
        stamp \in {None, Some(ContactIds[1]), Some(ContactIds[2])},
        g \in SUBSET {DefaultGroup, OtherGroup}}

\* the contact lists --cache-from can hold for a registry
Parsed(registries) ==
    {[i \in DOMAIN r |-> ParseContact(r[i])] : r \in registries}

\* the lists --cache-to writes (cli.py:192-196): one contact for each key of
\* email_to_contact
Deduplicated(lists) ==
    {list \in lists :
        \A i, j \in DOMAIN list :
            i # j => Str(list[i].communication.email) # Str(list[j].communication.email)}

InitDiff ==
    InitAt("diff", {<<>>}, Stores(1, DiffAccount),
           Parsed({r \in Registries(1, DiffRaw) : Len(r) = 1}))

NextDiff == DiffContact

SpecDiff == InitDiff /\ [][NextDiff]_vars

-----------------------------------------------------------------------------
(* Specification of the resolver alone: one turn of the loop of            *)
(* cli.py:203-282 for one contact and a store whose accounts vary in stamp *)
(* and email.                                                              *)

ResolveRaw ==
    {RawContact(TRUE, FALSE, e, Some("isActive"), None) :
        e \in {None, Some(EmailA), Some(EmailUpperA), Some(EmailB)}}

ResolveAccount ==
    {Account(<<>>, e, Some(FirstName), Some(LastName), TRUE, TRUE,
             IF stamp = None THEN NoAttributes ELSE Stamp(Val(stamp)),
             {DefaultGroup}) :
        e \in {None, Some(EmailA), Some(EmailB), Some(EmailBA)},
        stamp \in {None, Some(ContactIds[1]), Some(ContactIds[2])}}

InitResolve ==
    InitAt("diff", {<<>>}, Stores(MaxResolveAccounts, ResolveAccount),
           Parsed({r \in Registries(1, ResolveRaw) : Len(r) = 1}))

NextResolve == DiffContact

SpecResolve == InitResolve /\ [][NextResolve]_vars

-----------------------------------------------------------------------------
(* Specification of the planner and the executor: cli.py:203-443 of one    *)
(* invocation that was given its contact list, over a store of at most one *)
(* account whose username, profile, attributes and groups vary.            *)

\* the most contacts of the given list
MaxExecContacts == 2

ExecRaw ==
    {RawContact(TRUE, FALSE, e, s, None) :
        e \in {None, Some(EmailA), Some(EmailUpperA), Some(EmailB)},
        s \in {Some("isActive"), Some("hasLeft")}}

\* a username as the login form writes it when the email is the username
EmailAsUsernameTail == <<"@", "x">>

ExecAccount ==
    {Account(tail, e, IF tidy THEN Some(FirstName) ELSE Some("Old"),
             IF tidy THEN Some(LastName) ELSE None, enabled, tidy, attributes, g) :
        tail \in {<<>>, NO_MEMBER_SUFFIX, EmailAsUsernameTail},
        e \in {None, Some(EmailA), Some(EmailB)},
        tidy \in BOOLEAN, enabled \in BOOLEAN,
        attributes \in {NoAttributes, [a \in {"locale"} |-> <<"de">>],
                        Stamp(ContactIds[1]), StampAndLocale(ContactIds[1])},
        g \in {{}, {DefaultGroup}, {DefaultGroup, OtherGroup}}}

InitExec ==
    InitAt("diff", {<<>>}, Stores(1, ExecAccount),
           Deduplicated(Parsed({r \in Registries(MaxExecContacts, ExecRaw) :
                                   Len(r) >= 1})))

NextExec ==
    \/ DiffContact
    \/ Preview
    \/ Confirm
    \/ ExecWrite
    \/ ExecGroupAdd
    \/ ExecGroupRemove

SpecExec == InitExec /\ [][NextExec]_vars

-----------------------------------------------------------------------------
(* Specification of the username probing: cli.py:339-437 for one contact   *)
(* that has no account, over a store whose accounts hold the usernames the *)
(* probing tries.                                                          *)

\* the most accounts of the store
MaxProbeAccounts == 3

EmailPlusB == <<"b", "+", "@", "x">>

ProbeRaw ==
    {RawContact(TRUE, FALSE, Some(e), Some("isActive"), None) :
        e \in {EmailA, EmailB, EmailPlusB}}

ProbeAccount ==
    {Account(tail, None, Some(FirstName), Some(LastName), enabled, TRUE,
             NoAttributes, {DefaultGroup}) :
        tail \in {<<>>, NO_MEMBER_SUFFIX}, enabled \in BOOLEAN}

InitProbe ==
    InitAt("diff", {<<>>}, Stores(MaxProbeAccounts, ProbeAccount),
           Parsed({r \in Registries(1, ProbeRaw) : Len(r) = 1}))

NextProbe ==
    \/ DiffContact
    \/ Preview
    \/ Confirm
    \/ ExecWrite
    \/ ExecGroupAdd

SpecProbe == InitProbe /\ [][NextProbe]_vars

-----------------------------------------------------------------------------
(* Specification of the targets of the operations: cli.py:203-443 of one   *)
(* invocation that was given its contact list, over a store of at most two *)
(* accounts whose usernames, stamps and emails vary.                       *)

\* the most contacts of the given list
MaxTargetContacts == 2

\* the most accounts of the store
MaxTargetAccounts == 2
MaxLiveRaw == 3
MaxLiveAccounts == 3

TargetRaw ==
    {RawContact(TRUE, FALSE, Some(e), s, None) :
        e \in {EmailA, EmailB}, s \in {Some("isActive"), Some("hasLeft")}}

TargetUsernames == {<<"a">>, <<"b">>, <<"b">> \o NO_MEMBER_SUFFIX}

TargetAccount ==
    {Account(username, e, Some(FirstName), Some(LastName), enabled, TRUE,
             IF stamp = None THEN NoAttributes ELSE Stamp(Val(stamp)),
             IF enabled THEN {DefaultGroup} ELSE {}) :
        username \in TargetUsernames,
        e \in {None, Some(EmailA), Some(EmailB)},
        enabled \in BOOLEAN,
        stamp \in {None, Some(ContactIds[1]), Some(ContactIds[2])}}

\* the store gives every account its own id and keeps usernames unique
TargetStores ==
    {[i \in DOMAIN s |-> [s[i] EXCEPT !.id = i]] :
        s \in {t \in SeqsUpTo(MaxTargetAccounts, TargetAccount) :
                  \A i, j \in DOMAIN t : i # j => t[i].username # t[j].username}}

InitTarget ==
    InitAt("diff", {<<>>}, TargetStores,
           Deduplicated(Parsed({r \in Registries(MaxTargetContacts, TargetRaw) :
                                   Len(r) >= 1})))

NextTarget ==
    \/ DiffContact
    \/ Preview
    \/ Confirm
    \/ ExecWrite
    \/ ExecGroupAdd
    \/ ExecGroupRemove

SpecTarget == InitTarget /\ [][NextTarget]_vars

-----------------------------------------------------------------------------
(* Properties of the pipeline (specification Spec).                        *)

\* the contacts of the operations in the sync queue
QueuedContacts == {sync_queue[i].contact : i \in DOMAIN sync_queue}

\* C1: when an invocation that executed its whole queue and returned is
\* followed by a second invocation against the same registry and the store
\* as the first left it, the sync queue the second invocation computes is
\* empty.
C1_SecondRunQueueEmpty ==
    (runs = 2 /\ prev_clean /\ pc = "preview") => sync_queue = <<>>

\* whether the account agrees with the contact
Agrees(u, contact) ==
    /\ u.enabled = is_contact_active(contact)
    /\ u.email = (IF contact.communication.email = None THEN None
                  ELSE Some(Lower(Val(contact.communication.email))))
    /\ u.firstName = Some(contact.personal.person_first_name)
    /\ u.lastName = Some(contact.personal.person_last_name)
    /\ contact.id \in Range(AttrGet(u.attributes, ATTRIBUTE_CAMPAI_ID))
    /\ IF is_contact_active(contact)
       THEN DefaultGroup \in u.groups
       ELSE u.groups = {}

\* the contacts that were resolved to an account or for which one was created
ContactsWithAccount ==
    {contacts[i] : i \in {j \in DOMAIN contacts :
        \/ Resolve(users, contacts[j]).user # None
        \/ \E k \in DOMAIN sync_queue :
              /\ sync_queue[k].contact = contacts[j]
              /\ ~IsSkippedOp(sync_queue[k])}}

\* C2: after an invocation that executed its whole sync queue without an
\* error of the store, every deduplicated contact that was resolved to an
\* account, or for which one was created, has an account that agrees with it
\* in enabled flag, email, names, stamped id and groups.
C2_AgreementAfterRun ==
    (pc = "up" /\ outcome = "returned") =>
        \A contact \in ContactsWithAccount :
            \E id \in DOMAIN users : Agrees(users[id], contact)

\* C3: when a store call raises while one operation is executed, every later
\* operation of the sync queue is still executed.
C3_LaterOperationsExecuted ==
    (pc = "terminated" /\ raised_at # 0) =>
        \A j \in (raised_at + 1)..Len(sync_queue) : j \in started_ops

\* C7, as stated: no contact without an email, none that is not a person and
\* none that is an organisation is in the working set or in the sync queue.
C7_EmailLessAndNonPersonsExcluded ==
    \A contact \in Range(DictValues(email_to_contact)) \cup Range(contacts)
                   \cup QueuedContacts :
        /\ contact.communication.email # None
        /\ contact.personal.is_person
        /\ ~contact.personal.is_organisation

\* C7, as amended: no contact that is not a person and none that is an
\* organisation is in the working set or in the sync queue; a person without
\* an email is held in the working set under the key str(None), and once the
\* pages are fetched the working set holds one whenever the registry does.
C7_NonPersonsExcluded ==
    /\ \A contact \in Range(DictValues(email_to_contact)) \cup Range(contacts)
                      \cup QueuedContacts :
          /\ contact.personal.is_person
          /\ ~contact.personal.is_organisation
    /\ \A i \in DOMAIN email_to_contact :
          email_to_contact[i].key = Str(email_to_contact[i].value.communication.email)
    /\ (pc \in {"diff", "preview"} /\ outcome = "running") =>
          \A i \in DOMAIN source :
              LET contact == ParseContact(source[i])
              IN  (~IsSkippedContact(contact) /\ contact.communication.email = None)
                      => \E c \in Range(contacts) : c.communication.email = None

\* the registry holds a record that is not a person or is an organisation and
\* a person without an email, the pages are fetched and the queue is computed
C7_Witness ==
    /\ pc = "preview"
    /\ \E i \in DOMAIN source : IsSkippedContact(ParseContact(source[i]))
    /\ \E c \in QueuedContacts : c.communication.email = None

\* C10: every invocation sends exactly one heartbeat: "up" when the run
\* completes, "down" when it fails for any reason.
C10_ExactlyOneHeartbeat ==
    pc = "terminated" =>
        \/ heartbeats = <<"up">> /\ outcome = "returned"
        \/ heartbeats = <<"down">> /\ outcome # "returned"

\* C11: whenever the run fails with an exception raised inside the
\* reconciliation, the "down" heartbeat is sent and the process ends with a
\* status other than 0.
C11_FailedRunExitsNonZero ==
    (pc = "terminated" /\ outcome = "raised") =>
        /\ heartbeats = <<"down">>
        /\ exit_status # Some(0)

\* C12: if the organisation lookup or the default-group lookup does not find
\* exactly one, the run ends without having issued a mutating call to the
\* identity store and without having begun an operation.
C12_PreconditionFailureBeforeMutation ==
    (\E i \in DOMAIN lookups : lookups[i] # 1) =>
        /\ pc = "terminated"
        /\ calls = <<>>
        /\ started_ops = {}

\* the organisation was found and the group lookup found two groups
C12_Witness ==
    /\ pc = "terminated"
    /\ lookups = <<1, 2>>
    /\ calls = <<>>

\* C13: no mutating call is issued before a preview line was printed for
\* every queued operation, nor, when auto-apply is not configured, before the
\* confirmation was given; when the confirmation is declined, no mutating
\* call is issued in that run.
C13_PreviewAndConfirmationFirst ==
    /\ (calls # <<>> \/ started_ops # {}) =>
          /\ previewed = DOMAIN sync_queue
          /\ auto_apply \/ confirmation = "given"
    /\ confirmation = "declined" =>
          /\ calls = <<>>
          /\ started_ops = {}
          /\ pc \in {"down", "terminated"}

\* a run that was confirmed has issued calls for two previewed operations
C13_Witness ==
    /\ confirmation = "given"
    /\ ~auto_apply
    /\ previewed = {1, 2}
    /\ \E k \in DOMAIN calls : calls[k].op = 2

-----------------------------------------------------------------------------
(* Properties of the normalizer (specification SpecNorm).                  *)

\* the pagination loop has ended
FetchDone == pc # "fetch"

\* the registry's record at position i, parsed
SourceContact(i) == ParseContact(source[i])

\* the key under which the normalizer files a contact
KeyOf(contact) == Str(contact.communication.email)

\* the positions of the registry's included records
IncludedAt == {i \in DOMAIN source : ~IsSkippedContact(SourceContact(i))}

\* the positions of the included records filed under the key
GroupOf(key) == {i \in IncludedAt : KeyOf(SourceContact(i)) = key}

\* the positions of the included records that have an email
WithEmail == {i \in IncludedAt : SourceContact(i).communication.email # None}

\* the emails of the included records
SourceKeys == {KeyOf(SourceContact(i)) : i \in WithEmail}

NumberAt(i) == SourceContact(i).membership.number_sort

\* the mapping the loop of cli.py:160-188 makes of the contacts in this order
Normalize(registry) ==
    ProcessPage([dict |-> <<>>, warned |-> FALSE],
                [i \in DOMAIN registry |-> ParseContact(registry[i])]).dict

\* the registry's records in another order of arrival
Reordered(p) == [i \in DOMAIN source |-> source[p[i]]]

\* the contact kept under the key is the same for every order of arrival
SameForEveryOrder(key) ==
    \A p \in Permutations(DOMAIN source) :
        DictGet(Normalize(Reordered(p)), key) = DictGet(email_to_contact, key)

\* the contact kept under the key has a number lower than every other
\* record of the key's group
KeptHasLowestNumber(key) ==
    \E i \in GroupOf(key) :
        /\ DictGet(email_to_contact, key) = Some(SourceContact(i))
        /\ \A j \in GroupOf(key) \ {i} : Val(NumberAt(i)) < Val(NumberAt(j))

\* C4, as stated: of the included records that share an email and all have
\* a membership number, the one kept is the one with the strictly lower
\* number, and it is the same for every order in which the records arrive.
C4_LowerNumberKeptInEveryOrder ==
    FetchDone =>
        \A key \in SourceKeys :
            (\A i \in GroupOf(key) : NumberAt(i) # None)
                => KeptHasLowestNumber(key) /\ SameForEveryOrder(key)

\* C4, as amended: of the included records that share an email and have
\* pairwise different membership numbers, the one kept is the one with the
\* lowest number, and it is the same for every order of arrival.
C4_LowestOfDistinctNumbersKept ==
    FetchDone =>
        \A key \in SourceKeys :
            (/\ \A i \in GroupOf(key) : NumberAt(i) # None
             /\ \A i, j \in GroupOf(key) : i # j => NumberAt(i) # NumberAt(j))
                => KeptHasLowestNumber(key) /\ SameForEveryOrder(key)

\* two records of one email arrive in different pages, the one with the lower
\* number last
C4_Witness ==
    /\ FetchDone
    /\ \E i, j \in WithEmail :
          /\ i <= PageLimit /\ PageLimit < j
          /\ KeyOf(SourceContact(i)) = KeyOf(SourceContact(j))
          /\ \A k \in GroupOf(KeyOf(SourceContact(i))) : NumberAt(k) # None
          /\ Val(NumberAt(j)) < Val(NumberAt(i))
          /\ DictGet(email_to_contact, KeyOf(SourceContact(j))) = Some(SourceContact(j))

\* the pairs of positions i < j that are the whole group of an email, exactly
\* one of the two having a membership number
ScenarioD ==
    {pair \in WithEmail \X WithEmail :
        /\ pair[1] < pair[2]
        /\ GroupOf(KeyOf(SourceContact(pair[1]))) = {pair[1], pair[2]}
        /\ (NumberAt(pair[1]) = None) # (NumberAt(pair[2]) = None)}

\* C5, as stated: when two records share an email and exactly one of them has
\* a membership number, the one with the number is kept, whichever is seen
\* first; the collision is logged and no error is raised.
C5_NumberedRecordKept ==
    FetchDone =>
        \A pair \in ScenarioD :
            LET numbered == IF NumberAt(pair[1]) # None THEN pair[1] ELSE pair[2]
            IN  /\ DictGet(email_to_contact, KeyOf(SourceContact(numbered)))
                       = Some(SourceContact(numbered))
                /\ "same_email" \in warnings
                /\ outcome = "running"

\* C5, as amended: when two records share an email and exactly one of them
\* has a membership number, the one seen first is kept, whether or not it is
\* the one with the number; the collision is logged and no error is raised.
C5_EarlierSeenRecordKept ==
    FetchDone =>
        \A pair \in ScenarioD :
            /\ DictGet(email_to_contact, KeyOf(SourceContact(pair[1])))
                   = Some(SourceContact(pair[1]))
            /\ "same_email" \in warnings
            /\ outcome = "running"

\* the record without a number arrived first and the one with a number later
C5_Witness ==
    /\ FetchDone
    /\ \E pair \in ScenarioD :
          /\ NumberAt(pair[1]) = None
          /\ DictGet(email_to_contact, KeyOf(SourceContact(pair[1])))
                 = Some(SourceContact(pair[1]))

\* the records the pagination loop has been given so far
Processed == {i \in DOMAIN source : i <= page_skip}

\* the mapping after the first n records
MappingAfter(n) == Normalize(SubSeq(source, 1, n))

\* the record at position n collides with the contact held under its email,
\* and one of the two has no membership number
CollidesUncomparably(n) ==
    LET held == DictGet(MappingAfter(n - 1), KeyOf(SourceContact(n)))
    IN  /\ n \in IncludedAt
        /\ held # None
        /\ (NumberAt(n) = None \/ Val(held).membership.number_sort = None)

\* C6: when an incoming record collides on email with the record held in the
\* mapping and either has no membership number, the mapping is left as it
\* was, a warning is logged, and the records after it are processed.
C6_ConservativeTieBreak ==
    \A n \in Processed :
        CollidesUncomparably(n) =>
            /\ MappingAfter(n) = MappingAfter(n - 1)
            /\ "same_email" \in warnings
            /\ outcome = "running"
            /\ \A m \in Processed \cap IncludedAt :
                  DictHas(email_to_contact, KeyOf(SourceContact(m)))

\* a record collided uncomparably and a record after it was filed under a new key
C6_Witness ==
    \E n \in Processed \cap WithEmail :
        /\ CollidesUncomparably(n)
        /\ \E m \in Processed \cap IncludedAt :
              /\ m > n
              /\ KeyOf(SourceContact(m)) # KeyOf(SourceContact(n))
              /\ DictGet(email_to_contact, KeyOf(SourceContact(m))) = Some(SourceContact(m))

-----------------------------------------------------------------------------
(* Properties of the diff (specification SpecDiff).                        *)

\* C8: the flag set the diff computes for a contact and the account resolved
\* for it, or none, never holds both CREATE and DEACTIVATE, and neither does
\* the flag set of a queued operation.
C8_CreateDeactivateExclusive ==
    /\ ~({"CREATE", "DEACTIVATE"} \subseteq member_actions)
    /\ \A i \in DOMAIN sync_queue :
          ~({"CREATE", "DEACTIVATE"} \subseteq sync_queue[i].actions)

\* the diff has run for a contact that is not to be active and has no account,
\* and for one whose account is to be deactivated
C8_Witness ==
    /\ contact_idx = 2
    /\ ~is_contact_active(contacts[1])
    /\ \/ kc_user = None /\ member_actions = {}
       \/ kc_user # None /\ "DEACTIVATE" \in member_actions

-----------------------------------------------------------------------------
(* Properties of the resolver (specification SpecResolve).                 *)

\* the accounts stamped with the contact's id
StampedWith(contact) ==
    {i \in DOMAIN users :
        contact.id \in Range(AttrGet(users[i].attributes, ATTRIBUTE_CAMPAI_ID))}

\* the accounts whose email is exactly the contact's, letter case aside
WithEmailOf(contact) ==
    {i \in DOMAIN users :
        /\ contact.communication.email # None
        /\ users[i].email # None
        /\ Lower(Val(users[i].email)) = Lower(Val(contact.communication.email))}

\* the one account of a set of one
TheAccount(ids) == Some(UserRepr(users[CHOOSE i \in ids : TRUE]))

\* C9: resolving a contact returns the account stamped with its id when
\* exactly one is; only otherwise, and only if the contact has an email, it
\* returns the account with exactly that email when exactly one has it; in
\* every other case the result is "not found", and a query that more than
\* one account answers logs a warning.
C9_ResolutionOrder ==
    contact_idx = 2 =>
        LET contact == contacts[1]
            stamped == StampedWith(contact)
            emailed == WithEmailOf(contact)
            asks_email == Cardinality(stamped) # 1
                              /\ contact.communication.email # None
        IN  /\ kc_user = IF Cardinality(stamped) = 1 THEN TheAccount(stamped)
                         ELSE IF asks_email /\ Cardinality(emailed) = 1
                         THEN TheAccount(emailed)
                         ELSE None
            /\ [i \in DOMAIN queries |-> queries[i].kind]
                   = IF asks_email THEN <<"q", "email">> ELSE <<"q">>
            /\ ("more_than_one_result" \in warnings)
                   <=> \/ Cardinality(stamped) > 1
                       \/ asks_email /\ Cardinality(emailed) > 1

-----------------------------------------------------------------------------
(* Properties of the username probing (specification SpecProbe).           *)

\* the create call of the run, once it was issued
CreateCalls == {k \in DOMAIN calls : calls[k].call = "create_user"}

\* whether an account other than `id` holds the username
HeldByOther(id, username) ==
    \E i \in DOMAIN users : i # id /\ users[i].username = username

\* C14: on CREATE the candidates probed are the base candidate, then the base
\* followed by 1, 2, ... in increasing order; every candidate before the last
\* is held by an account, the last one is held by none, and the account is
\* created with exactly the last one.
C14_ProbingStopsAtFirstFree ==
    \A k \in CreateCalls :
        LET op == sync_queue[calls[k].op]
            base == sanitize_username(SplitFirst(Str(op.contact.communication.email), "@"))
            created == calls[k].user
            last == Len(probes)
        IN  /\ last >= 1
            /\ \A n \in DOMAIN probes :
                  probes[n] = IF n = 1 THEN base ELSE base \o StrOfInt(n - 1)
            /\ \A n \in 1..(last - 1) : HeldByOther(created, probes[n])
            /\ ~HeldByOther(created, probes[last])
            /\ calls[k].payload.username = Some(probes[last])
            /\ users[created].username = probes[last]

\* the base candidate and the base followed by 1 are held, the account was
\* created with the base followed by 2
C14_Witness ==
    /\ CreateCalls # {}
    /\ Len(probes) = 3
    /\ \E i \in DOMAIN users : users[i].username = <<"b", "2">>

-----------------------------------------------------------------------------
(* Properties of the planner and the executor (specification SpecExec).    *)

\* the calls issued for operation i
CallsOf(i) == {k \in DOMAIN calls : calls[k].op = i}

\* the executor has just left operation i without an exception
JustFinished(i) ==
    /\ i \in started_ops
    /\ \/ pc = "exec" /\ op_idx = i + 1 /\ op_idx \notin started_ops
       \/ pc = "up" /\ op_idx = i /\ i = Len(sync_queue)

ScenarioAFlags ==
    {"CREATE", "UPDATE_FIRST_NAME", "UPDATE_LAST_NAME", "UPDATE_EMAIL",
     "SET_EMAIL_VALIDATED", "ADD_DEFAULT_GROUP", "ADD_CAMPAI_ID"}

\* C15: a contact with a desired-active status for which no account was
\* resolved is queued with CREATE and the first-name, last-name, email,
\* email-verified, default-group and id-stamp flags; when such an operation has
\* no email, the executor issues no call for it, logs a warning and goes on
\* with the next operation.
C15_ScenarioAAndNoEmailSkip ==
    /\ (pc \in {"diff", "preview"} /\ contact_idx > 1) =>
          LET contact == contacts[contact_idx - 1]
          IN  (is_contact_active(contact) /\ kc_user = None) =>
                  /\ ScenarioAFlags \subseteq member_actions
                  /\ sync_queue # <<>>
                  /\ sync_queue[Len(sync_queue)].contact = contact
                  /\ sync_queue[Len(sync_queue)].actions = member_actions
    /\ \A i \in started_ops :
          ("CREATE" \in sync_queue[i].actions
              /\ sync_queue[i].contact.communication.email = None) =>
                  /\ CallsOf(i) = {}
                  /\ "email_is_missing" \in warnings
                  /\ raised_at # i
                  /\ op_idx > i \/ pc = "up"

\* the first operation is a CREATE without an email, and the executor has
\* issued a call for the second
C15_Witness ==
    /\ Len(sync_queue) = 2
    /\ "CREATE" \in sync_queue[1].actions
    /\ sync_queue[1].contact.communication.email = None
    /\ CallsOf(1) = {}
    /\ CallsOf(2) # {}

ScenarioBFlags == {"DEACTIVATE", "REMOVE_ALL_GROUPS", "ADD_NO_MEMBER_SUFFIX"}

\* the contact the diff has just handled resolved to an enabled account with
\* groups and an unsuffixed username, and its status is desired-inactive
ScenarioBAtDiff ==
    /\ pc \in {"diff", "preview"}
    /\ contact_idx > 1
    /\ ~is_contact_active(contacts[contact_idx - 1])
    /\ kc_user # None
    /\ Val(kc_user).enabled
    /\ GetUserGroups(users, Val(kc_user).id) # {}
    /\ ~EndsWith(Val(kc_user).username, NO_MEMBER_SUFFIX)

\* the flags of scenario B, and what the store holds for the account when the
\* executor has just left an operation with these flags, given the username
\* the account is expected to have
ScenarioB(expected(_)) ==
    /\ ScenarioBAtDiff =>
          /\ ScenarioBFlags \subseteq member_actions
          /\ "CREATE" \notin member_actions
          /\ sync_queue # <<>>
          /\ sync_queue[Len(sync_queue)].actions = member_actions
    /\ \A i \in DOMAIN sync_queue :
          (ScenarioBFlags \subseteq sync_queue[i].actions /\ JustFinished(i)) =>
              LET found == Val(sync_queue[i].kc_user)
                  account == users[found.id]
              IN  /\ ~account.enabled
                  /\ account.groups = {}
                  /\ account.username = expected(found.username)

PreviousWithSuffix(username) == username \o NO_MEMBER_SUFFIX

SanitizedWithSuffix(username) == sanitize_username(username) \o NO_MEMBER_SUFFIX

\* C16 as stated: in scenario B the flag set holds DEACTIVATE,
\* REMOVE_ALL_GROUPS and ADD_NO_MEMBER_SUFFIX and no CREATE, and after the
\* operation the account is disabled, in no group, and its username is the
\* previous username followed by the suffix.
C16_ScenarioBPreviousUsername == ScenarioB(PreviousWithSuffix)

\* C16: in scenario B the flag set holds DEACTIVATE, REMOVE_ALL_GROUPS and
\* ADD_NO_MEMBER_SUFFIX and no CREATE, and after the operation the account
\* is disabled, in no group, and its username is the previous username passed
\* through sanitize_username, followed by the suffix.
C16_ScenarioBSanitizedUsername == ScenarioB(SanitizedWithSuffix)

\* an operation of scenario B has just been executed: one update and the
\* removal from two groups
C16_Witness ==
    \E i \in DOMAIN sync_queue :
        /\ ScenarioBFlags \subseteq sync_queue[i].actions
        /\ JustFinished(i)
        /\ Cardinality(CallsOf(i)) = 3
        /\ EndsWith(users[Val(sync_queue[i].kc_user).id].username, NO_MEMBER_SUFFIX)

\* an optional email with its letters in lower case
EmailLower(email) == IF email = None THEN None ELSE Some(Lower(Val(email)))

WriteCalls == {k \in DOMAIN calls : calls[k].call \in {"create_user", "update_user"}}

\* C17: for a resolved account the email flag is set exactly when the
\* account's email and the contact's email differ in more than letter case;
\* whenever the flag is set for a contact with an email, the email written to
\* the store is the contact's email in lower case.
C17_EmailComparedAndWrittenInLowerCase ==
    /\ (pc \in {"diff", "preview"} /\ contact_idx > 1 /\ kc_user # None) =>
          LET email == contacts[contact_idx - 1].communication.email
          IN  ("UPDATE_EMAIL" \in member_actions)
                  <=> (EmailLower(email) # EmailLower(Val(kc_user).email))
    /\ \A k \in WriteCalls :
          LET op == sync_queue[calls[k].op]
              email == op.contact.communication.email
          IN  ("UPDATE_EMAIL" \in op.actions /\ email # None) =>
                  /\ calls[k].payload.email = Some(Lower(Val(email)))
                  /\ JustFinished(calls[k].op) =>
                        users[calls[k].user].email = Some(Lower(Val(email)))

\* a contact whose email has an upper-case letter resolved to an account with
\* another email, and the update wrote the contact's email in lower case
C17_Witness ==
    \E k \in WriteCalls :
        LET op == sync_queue[calls[k].op]
        IN  /\ calls[k].call = "update_user"
            /\ "UPDATE_EMAIL" \in op.actions
            /\ op.contact.communication.email = Some(EmailUpperA)
            /\ Val(op.kc_user).email = Some(EmailB)
            /\ users[calls[k].user].email = Some(EmailA)

\* the fields of an account and the flags that change each
FlagsOf(field) ==
    CASE field = "username" -> {"ADD_NO_MEMBER_SUFFIX", "REMOVE_NO_MEMBER_SUFFIX"}
      [] field = "enabled" -> {"ACTIVATE", "DEACTIVATE"}
      [] field = "email" -> {"UPDATE_EMAIL"}
      [] field = "firstName" -> {"UPDATE_FIRST_NAME"}
      [] field = "lastName" -> {"UPDATE_LAST_NAME"}
      [] field = "emailVerified" -> {"SET_EMAIL_VALIDATED"}

\* the update of operation calls[k].op is the last call and was accepted
UpdateJustApplied(k) ==
    /\ k = Len(calls)
    /\ calls[k].call = "update_user"
    /\ pc # "down"

\* the fields in `fields` whose flags are not set are as the diff found them
FieldsKept(k, fields) ==
    LET op == sync_queue[calls[k].op]
        found == Val(op.kc_user)
    IN  \A f \in fields :
            (FlagsOf(f) \cap op.actions = {}) => users[found.id][f] = found[f]

\* the attributes other than the id stamp are as the diff found them
OtherAttributesKept(k) ==
    LET found == Val(sync_queue[calls[k].op].kc_user)
        now == users[found.id].attributes
    IN  \A a \in DOMAIN found.attributes \ {ATTRIBUTE_CAMPAI_ID} :
            a \in DOMAIN now /\ now[a] = found.attributes[a]

\* C19: after an update, every field of the account whose flag is not set
\* (username, enabled, email, first name, last name, email-verified) and every
\* attribute other than the id stamp has the value the diff found.
C19_PatchNotReplace ==
    \A k \in DOMAIN calls :
        UpdateJustApplied(k) =>
            /\ FieldsKept(k, {"username", "enabled", "email", "firstName",
                              "lastName", "emailVerified"})
            /\ OtherAttributesKept(k)

GroupCalls == DOMAIN calls \ WriteCalls

\* C20: the calls are issued in the order of the sync queue, no operation is
\* begun before the ones ahead of it; every group call of an operation comes
\* after the create or update call of that operation, which is the only one
\* and names the same account; and the account a group call names is in the
\* store.
C20_WriteBeforeGroupsInQueueOrder ==
    /\ \A j, k \in DOMAIN calls : j < k => calls[j].op <= calls[k].op
    /\ \A i \in started_ops : 1..i \subseteq started_ops
    /\ \A k \in GroupCalls :
          /\ \E j \in WriteCalls :
                /\ j < k
                /\ calls[j].op = calls[k].op
                /\ calls[j].user = calls[k].user
          /\ \A j \in WriteCalls : calls[j].op = calls[k].op => j < k
          /\ calls[k].user \in DOMAIN users
    /\ \A j, k \in WriteCalls : calls[j].op = calls[k].op => j = k

\* two operations were executed, a creation followed by its group call and an
\* update followed by its group calls
C20_Witness ==
    /\ Len(calls) >= 4
    /\ calls[1].op = 1 /\ calls[2].op = 1
    /\ calls[1].call = "create_user" /\ calls[2].call = "group_user_add"
    /\ calls[3].op = 2 /\ calls[4].op = 2
    /\ calls[3].call = "update_user" /\ calls[4].call = "group_user_remove"

-----------------------------------------------------------------------------
(* Properties of an invocation that follows an interrupted one             *)
(* (specification Spec).                                                   *)

\* cli.py:203-282: the operation the diff computes for every contact
DiffAll(store, list) ==
    [i \in DOMAIN list |->
        LET found == Resolve(store, list[i])
        IN  [kc_user |-> found.user, contact |-> list[i],
             actions |-> ComputeActions(list[i], found.user, store)]]

\* cli.py:280-282: the sync queue
QueueOf(store, list) ==
    LET HasActions(op) == op.actions # {}
    IN  SelectSeq(DiffAll(store, list), HasActions)

\* cli.py:439-443
RECURSIVE RemoveFromAllGroups(_, _)
RemoveFromAllGroups(store, id) ==
    LET user_groups == GetUserGroups(store, id)
    IN  IF user_groups = {} THEN store
        ELSE RemoveFromAllGroups(GroupUserRemove(store, id, NextGroup(user_groups)), id)

\* cli.py:333-443: the store after one operation, None when a call raises
ExecuteOp(store, op) ==
    LET is_create == "CREATE" \in op.actions
        update_user == BuildUpdate(store, op)
        id == IF is_create THEN NewUserId(store) ELSE Val(op.kc_user).id
        written == IF is_create THEN CreateUser(store, CreatePayload(update_user))
                   ELSE UpdateUser(store, id, UpdatePayload(Val(op.kc_user), update_user))
        added == IF "ADD_DEFAULT_GROUP" \in op.actions
                 THEN GroupUserAdd(written, id, DefaultGroup) ELSE written
    IN  IF IsSkippedOp(op) THEN Some(store)
        ELSE IF UsernameRefused(store, id, Val(update_user.username)) THEN None
        ELSE IF "REMOVE_ALL_GROUPS" \in op.actions
        THEN Some(RemoveFromAllGroups(added, id))
        ELSE Some(added)

\* cli.py:332-443: the store after the operations from the i-th on
RECURSIVE ExecuteFrom(_, _, _)
ExecuteFrom(store, queue, i) ==
    IF i > Len(queue) THEN Some(store)
    ELSE LET after == ExecuteOp(store, queue[i])
         IN  IF after = None THEN None ELSE ExecuteFrom(Val(after), queue, i + 1)

\* cli.py:149-443: the store an invocation that nothing interrupts leaves,
\* None when a call of it raises
UninterruptedRun(store, registry) ==
    ExecuteFrom(store, QueueOf(store, DictValues(Normalize(registry))), 1)

\* the first invocation returned after executing its whole queue
FirstRunCompleted == runs = 1 /\ pc = "up" /\ outcome = "returned"

\* an invocation that is not interrupted leaves the store UninterruptedRun
\* computes
UninterruptedRunIsTheRun ==
    FirstRunCompleted => Some(users) = UninterruptedRun(first_users, source)

\* the second invocation returned after executing its whole queue, the first
\* did not
RerunCompleted == runs = 2 /\ ~prev_clean /\ pc = "up" /\ outcome = "returned"

\* C18: when the first invocation is interrupted and the second one, against
\* the same registry, returns after executing its whole queue, the store is
\* the one an uninterrupted first invocation would have left.
C18_RerunConverges ==
    LET uninterrupted == UninterruptedRun(first_users, source)
    IN  (RerunCompleted /\ uninterrupted # None) => users = Val(uninterrupted)

-----------------------------------------------------------------------------
(* Properties of the suffix, the resolved targets and the usernames        *)
(* (specification SpecExec).                                               *)

\* a text that ends with the suffix, without that one occurrence of it
WithoutSuffix(username) ==
    SubSeq(username, 1, Len(username) - Len(NO_MEMBER_SUFFIX))

\* C21: when REMOVE_NO_MEMBER_SUFFIX is applied to an account whose username
\* is u followed by the non-member suffix, the username written to the store
\* is the sanitized username without that one trailing suffix, and no other
\* character is removed.
C21_SuffixRemovalInvertsAddition ==
    \A k \in WriteCalls :
        LET op == sync_queue[calls[k].op]
        IN  ("REMOVE_NO_MEMBER_SUFFIX" \in op.actions /\ op.kc_user # None) =>
                /\ EndsWith(Val(op.kc_user).username, NO_MEMBER_SUFFIX)
                /\ calls[k].payload.username
                       = WithoutSuffix(sanitize_username(Val(op.kc_user).username))

-----------------------------------------------------------------------------
(* Properties of the targets of the operations (specification SpecTarget). *)

\* the accounts that carry the contact's id in their stamp before the run
StampedBefore(contact) ==
    {id \in DOMAIN first_users :
        contact.id \in Range(AttrGet(first_users[id].attributes, ATTRIBUTE_CAMPAI_ID))}

\* the accounts whose email answers the contact's email before the run
EmailMatchedBefore(contact) ==
    IF contact.communication.email = None THEN {}
    ELSE {id \in DOMAIN first_users :
            Matches(first_users[id], EmailQuery(Str(contact.communication.email)))}

\* C22: when exactly one account carries a contact's id and a different
\* account matches the contact's email, the contact's operation resolves to
\* the stamped account, every call of the operation names that account, and
\* the email-matched account is as it was unless another operation names it.
C22_StampedAccountWins ==
    \A i \in DOMAIN sync_queue :
        LET contact == sync_queue[i].contact
            stamped == StampedBefore(contact)
            matched == EmailMatchedBefore(contact) \ stamped
        IN  (Cardinality(stamped) = 1 /\ matched # {}) =>
                /\ sync_queue[i].kc_user # None
                /\ Val(sync_queue[i].kc_user).id \in stamped
                /\ \A k \in CallsOf(i) : calls[k].user \in stamped
                /\ \A m \in matched :
                      (\A k \in DOMAIN calls : calls[k].user # m) =>
                          users[m] = first_users[m]

\* the only operation has updated the stamped account and removed it from
\* its group, the other account matches the contact's email
C22_Witness ==
    /\ Len(sync_queue) = 1
    /\ Cardinality(StampedBefore(sync_queue[1].contact)) = 1
    /\ EmailMatchedBefore(sync_queue[1].contact) \ StampedBefore(sync_queue[1].contact) # {}
    /\ Cardinality(CallsOf(1)) = 2
    /\ pc = "up"

\* the accounts of a store that carry the id in their stamp
CarriersOf(store, id) ==
    {i \in DOMAIN store :
        id \in Range(AttrGet(store[i].attributes, ATTRIBUTE_CAMPAI_ID))}

\* at most one account carries each id
UniqueStamps(store) ==
    \A n \in DOMAIN ContactIds : Cardinality(CarriersOf(store, ContactIds[n])) <= 1

\* the attributes a create or update call carries
AttributesOf(call) ==
    IF call.call = "create_user" THEN Val(call.payload.attributes)
    ELSE call.payload.attributes

\* C23: when at most one account carries each id before the run, at most
\* one account carries each id after any number of executed operations, and
\* every stamp the run writes for ADD_CAMPAI_ID holds exactly one value, the
\* id of the operation's contact.
C23_StampsStayUnique ==
    UniqueStamps(first_users) =>
        /\ UniqueStamps(users)
        /\ \A k \in WriteCalls :
              LET op == sync_queue[calls[k].op]
              IN  "ADD_CAMPAI_ID" \in op.actions =>
                      AttrGet(AttributesOf(calls[k]), ATTRIBUTE_CAMPAI_ID)
                          = <<op.contact.id>>

\* the run has created an account for one contact and has stamped an
\* account that existed with the id of the other
C23_Witness ==
    /\ UniqueStamps(first_users)
    /\ Len(sync_queue) = 2
    /\ pc = "up"
    /\ \E j, k \in WriteCalls :
          /\ calls[j].call = "create_user"
          /\ calls[k].call = "update_user"
          /\ "ADD_CAMPAI_ID" \in sync_queue[calls[k].op].actions

\* C24: no account is the resolved target of two operations of the sync
\* queue, and no two operations issue calls that name the same account.
C24_OneOperationPerAccount ==
    /\ \A i, j \in DOMAIN sync_queue :
          (i # j /\ sync_queue[i].kc_user # None /\ sync_queue[j].kc_user # None) =>
              Val(sync_queue[i].kc_user).id # Val(sync_queue[j].kc_user).id
    /\ \A j, k \in DOMAIN calls :
          calls[j].user = calls[k].user => calls[j].op = calls[k].op

\* the username a create or update call carries
UsernameOf(call) ==
    IF call.call = "create_user" THEN Val(call.payload.username)
    ELSE call.payload.username

\* no two accounts of the store share a username
UniqueUsernames(store) ==
    \A i, j \in DOMAIN store : i # j => store[i].username # store[j].username

\* C25: the username a create or update call carries is held by no other
\* account at the moment of the call, and no two accounts of the store share
\* a username.
C25_UsernamesStayUnique ==
    /\ UniqueUsernames(users)
    /\ \A k \in WriteCalls :
          k = Len(calls) => ~HeldByOther(calls[k].user, UsernameOf(calls[k]))

-----------------------------------------------------------------------------
\* Termination of one invocation, from the pagination loop to the heartbeat

\* the registry's records: people with one of two addresses, members or not
LiveRaw ==
    {RawContact(TRUE, FALSE, Some(e), Some(status), None) :
        e \in {EmailA, EmailB}, status \in {"isActive", "hasLeft"}}

\* the store's accounts: enabled members of the default group, with the
\* address of a record or none
LiveAccount ==
    {Account(<<>>, email, Some(FirstName), Some(LastName), TRUE, TRUE,
             NoAttributes, {DefaultGroup}) :
        email \in {None, Some(EmailA)}}

InitLive ==
    InitAt("fetch", Registries(MaxLiveRaw, LiveRaw),
           Stores(MaxLiveAccounts, LiveAccount), {<<>>})

\* the steps from cli.py:149 to the end of `sync`: a request to a service
\* fails, or the program's next statement runs
NextLive ==
    \/ ServiceCallFails
    \/ FetchPage
    \/ DiffContact
    \/ Preview
    \/ Confirm
    \/ ExecWrite
    \/ ExecGroupAdd
    \/ ExecGroupRemove
    \/ SendUp
    \/ SendDown

\* `sync` is one sequential thread that never stalls: while a step is
\* possible one is taken, because the services answer every request (with a
\* result or a failure) and the operator answers the confirmation prompt
SpecLive == InitLive /\ [][NextLive]_vars /\ WF_vars(NextLive)

\* the offset of the first empty page of a registry of n records
FirstEmptySkip(n) == ((n + PageLimit - 1) \div PageLimit) * PageLimit

\* the records of the pages requested before the offset `skip`, in the order
\* of the requests
RECURSIVE Examined(_)
Examined(skip) ==
    IF skip <= 0 THEN <<>>
    ELSE Examined(skip - PageLimit) \o GetContacts(source, PageLimit, skip - PageLimit)

\* the pagination loop was left through its break
PaginationEnded == pc \in {"diff", "preview", "confirm", "exec", "up", "terminated"}
                   /\ ~(pc = "terminated" /\ outcome = "raised" /\ contacts = <<>>)

\* the offsets requested are multiples of the page limit up to the first
\* empty page, the pages requested so far hold a prefix of the registry,
\* each record once, and the loop ends with all of them
PaginationExaminesEachRecordOnce ==
    /\ page_skip % PageLimit = 0
    /\ page_skip <= FirstEmptySkip(Len(source))
    /\ Len(Examined(page_skip)) <= Len(source)
    /\ \A i \in DOMAIN Examined(page_skip) :
          Examined(page_skip)[i] = ParseContact(source[i])
    /\ PaginationEnded =>
          /\ page_skip = FirstEmptySkip(Len(source))
          /\ Len(Examined(page_skip)) = Len(source)
          /\ email_to_contact = Normalize(source)

\* the probe loop of the create just issued asked for at most one candidate
\* more than the store has accounts, every candidate before the last is
\* held, the last is free
ProbeLoopEndsAtFirstFree ==
    (calls # <<>> /\ calls[Len(calls)].call = "create_user") =>
        /\ Len(probes) >= 1
        /\ Len(probes) <= Len(first_users) + Len(sync_queue) + 1
        /\ \A n \in 1..(Len(probes) - 1) : HeldByOther(calls[Len(calls)].user, probes[n])
        /\ ~HeldByOther(calls[Len(calls)].user, probes[Len(probes)])

\* the invocation is over and a heartbeat went out
RunEnded == pc = "terminated" /\ heartbeats # <<>>

\* C26: the run terminates. The pagination loop requests offsets that advance
\* by the page limit and ends at the first empty page with every record of
\* the registry examined exactly once, every username probe loop ends at the
\* first free candidate, and an invocation that has reached the pagination
\* loop reaches its end with a heartbeat sent.
C26_RunTerminates ==
    /\ [](PaginationExaminesEachRecordOnce /\ ProbeLoopEndsAtFirstFree)
    /\ (pc = "fetch") ~> RunEnded

\* a registry of three records was read in two pages, a probe loop passed a
\* held candidate, and the run ended after the "up" heartbeat
C26_Witness ==
    /\ Len(source) = 3
    /\ page_skip = 2 * PageLimit
    /\ Len(probes) >= 2
    /\ pc = "terminated"
    /\ heartbeats = <<"up">>

=============================================================================
